---- MODULE Spec2Model ----
(***************************************************************************)
(* week01/docker-sql/pipeline/pipeline.py: a script that parses a month    *)
(* from argv[1], builds a two-row DataFrame, adds the month as a column,   *)
(* prints a preview, writes output_<month>.parquet and prints a            *)
(* confirmation.  The model runs the script statement by statement, one    *)
(* process after the other in the same working directory.                  *)
(*                                                                         *)
(* A Python str that the script parses is a sequence of one-character      *)
(* strings; a path or a printed text the script only builds is a string.   *)
(* A value that may be absent (an exit code, the preceding run) is a       *)
(* sequence of length at most one.                                         *)
(***************************************************************************)
EXTENDS Integers, Sequences, FiniteSets, TLC

\* Longest argument text the model tries.
MaxArgLen == 2
\* Number of processes run one after the other.
MaxRuns == 2

\* Characters an argument is made of: a digit, a sign, a blank, a letter.
Chars == {"1", "-", " ", "a"}
\* Values of sys.argv[0].
Scripts == {"pipeline.py", "./pipeline.py"}
\* What may follow argv[1] on the command line.
Extras == {<<>>, << <<"x">> >>}

RECURSIVE StringsOfLen(_)
StringsOfLen(n) ==
    IF n = 0 THEN {<<>>}
    ELSE {Append(s, c) : s \in StringsOfLen(n - 1), c \in Chars}

ArgTexts == UNION {StringsOfLen(n) : n \in 0..MaxArgLen}

\* Every command line: the script alone, or the script, argv[1] and extras.
Argvs ==
    {<<s>> : s \in Scripts}
        \cup {<<s, a>> \o e : s \in Scripts, a \in ArgTexts, e \in Extras}

----------------------------------------------------------------------------
(* int(str), base 10 *)

IsDigit(c) == c \in {"0", "1", "2", "3", "4", "5", "6", "7", "8", "9"}

DigitVal(c) ==
    CASE c = "0" -> 0 [] c = "1" -> 1 [] c = "2" -> 2 [] c = "3" -> 3
      [] c = "4" -> 4 [] c = "5" -> 5 [] c = "6" -> 6 [] c = "7" -> 7
      [] c = "8" -> 8 [] c = "9" -> 9

IsSpace(c) == c \in {" ", "\t", "\n", "\r"}

RECURSIVE LStrip(_)
LStrip(s) == IF s # <<>> /\ IsSpace(Head(s)) THEN LStrip(Tail(s)) ELSE s

RECURSIVE RStrip(_)
RStrip(s) ==
    IF s # <<>> /\ IsSpace(s[Len(s)]) THEN RStrip(SubSeq(s, 1, Len(s) - 1)) ELSE s

Strip(s) == RStrip(LStrip(s))

HasSign(s) == s # <<>> /\ Head(s) \in {"+", "-"}

\* The text after the optional sign.
Unsigned(s) == IF HasSign(s) THEN Tail(s) ELSE s

\* Digits, with single underscores allowed between two digits.
IsDigitGroup(d) ==
    /\ d # <<>>
    /\ \A i \in 1..Len(d) : IsDigit(d[i]) \/ d[i] = "_"
    /\ IsDigit(d[1]) /\ IsDigit(d[Len(d)])
    /\ \A i \in 1..(Len(d) - 1) : ~(d[i] = "_" /\ d[i + 1] = "_")

IsIntLiteral(s) == IsDigitGroup(Unsigned(Strip(s)))

RECURSIVE DigitsValue(_)
DigitsValue(d) ==
    IF d = <<>> THEN 0
    ELSE IF d[Len(d)] = "_" THEN DigitsValue(SubSeq(d, 1, Len(d) - 1))
    ELSE 10 * DigitsValue(SubSeq(d, 1, Len(d) - 1)) + DigitVal(d[Len(d)])

IntValue(s) ==
    LET t == Strip(s)
    IN  IF HasSign(t) /\ Head(t) = "-" THEN 0 - DigitsValue(Tail(t))
        ELSE DigitsValue(Unsigned(t))

\* A variant of int(s) that reads 0 where int raises ValueError.
PyIntLenient(s) ==
    IF IsIntLiteral(s) THEN [ok |-> TRUE, val |-> IntValue(s)]
    ELSE [ok |-> TRUE, val |-> 0]

\* A variant of int(s) that drops the sign.
PyIntUnsigned(s) ==
    IF IsIntLiteral(s) THEN [ok |-> TRUE, val |-> DigitsValue(Unsigned(Strip(s)))]
    ELSE [ok |-> FALSE]

\* int(s): the value when s is an integer literal, else ValueError (ok is
\* FALSE).  Python ints are unbounded: no width applies.
PyInt(s) ==
    IF IsIntLiteral(s) THEN [ok |-> TRUE, val |-> IntValue(s)]
    ELSE [ok |-> FALSE]

----------------------------------------------------------------------------
(* f"{month}": the decimal text of an int *)

DigitChar(d) ==
    CASE d = 0 -> "0" [] d = 1 -> "1" [] d = 2 -> "2" [] d = 3 -> "3"
      [] d = 4 -> "4" [] d = 5 -> "5" [] d = 6 -> "6" [] d = 7 -> "7"
      [] d = 8 -> "8" [] d = 9 -> "9"

RECURSIVE NatStr(_)
NatStr(n) ==
    IF n < 10 THEN DigitChar(n) ELSE NatStr(n \div 10) \o DigitChar(n % 10)

PyStr(n) == IF n < 0 THEN "-" \o NatStr(0 - n) ELSE NatStr(n)

FileName(m) == "output_" \o PyStr(m) \o ".parquet"

HelloLine(m) == "hello month=" \o PyStr(m)

----------------------------------------------------------------------------
(* pandas *)

\* pd.DataFrame(dict of equal-length lists): columns in insertion order.
DataFrame(data) == [nrows |-> Len(data[1].values), columns |-> data]

ColumnIndex(df, key) ==
    {i \in 1..Len(df.columns) : df.columns[i].name = key}

\* A variant of df[key] = scalar that stores the scalar once, not per row.
SetItemOneValue(df, key, scalar) ==
    [df EXCEPT !.columns = Append(@, [name |-> key, values |-> <<scalar>>])]

\* df[key] = scalar: the scalar is broadcast to every row; a new key is
\* appended as the last column, an existing one is replaced in place.
SetItem(df, key, scalar) ==
    LET col == [name |-> key, values |-> [i \in 1..df.nrows |-> scalar]]
    IN  IF ColumnIndex(df, key) = {}
        THEN [df EXCEPT !.columns = Append(@, col)]
        ELSE [df EXCEPT !.columns =
                 [i \in 1..Len(@) |-> IF @[i].name = key THEN col ELSE @[i]]]

Min(a, b) == IF a < b THEN a ELSE b

\* df.head(n): the first n rows of every column.
DfHead(df, n) ==
    LET k == Min(n, df.nrows)
    IN  [nrows |-> k,
         columns |-> [i \in 1..Len(df.columns) |->
                         [name |-> df.columns[i].name,
                          values |-> SubSeq(df.columns[i].values, 1, k)]]]

\* Rows of head() shown by default.
HeadRows == 5

\* A complete parquet file holding a table, and what a write that failed
\* midway leaves behind.
Parquet(df) == [format |-> "parquet", table |-> df]
Truncated == [format |-> "truncated"]

\* A variant of to_parquet that appends the rows to a file that exists.
ToParquetAppend(files, path, df) ==
    [p \in DOMAIN files \cup {path} |->
        IF p # path THEN files[p]
        ELSE IF path \in DOMAIN files /\ files[path].format = "parquet"
        THEN Parquet([nrows |-> files[path].table.nrows + df.nrows,
                      columns |-> [i \in 1..Len(df.columns) |->
                          [name |-> df.columns[i].name,
                           values |-> files[path].table.columns[i].values
                                          \o df.columns[i].values]]])
        ELSE Parquet(df)]

\* A variant of to_parquet that leaves the written file alone in the directory.
ToParquetAlone(files, path, df) == [p \in {path} |-> Parquet(df)]

\* df.to_parquet(path): the file is created, or replaced when it exists.
ToParquet(files, path, df) ==
    [p \in DOMAIN files \cup {path} |-> IF p = path THEN Parquet(df) ELSE files[p]]

\* The file at path after a write that ran out of space midway.
WriteCut(files, path) ==
    [p \in DOMAIN files \cup {path} |-> IF p = path THEN Truncated ELSE files[p]]

----------------------------------------------------------------------------
(* The process *)

VARIABLES
    pc,        \* the line the interpreter executes next, or "end", "exited"
    argv,      \* sys.argv
    globals,   \* the module's names bound so far: month, df
    stdout,    \* what was printed: one tuple of arguments per print call
    stderr,    \* the traceback of the uncaught exception, as its type name
    exitcode,  \* <<>> while the process runs, <<code>> once it has exited
    fs,        \* the working directory: path -> file content
    runs,      \* processes started so far
    prev       \* the record of the preceding process when it was given the
               \* same argv[1] (or none either), else <<>>

vars == <<pc, argv, globals, stdout, stderr, exitcode, fs, runs, prev>>

\* A file of the working directory the script has nothing to do with.
OtherFile == [format |-> "text"]

Bind(g, name, value) ==
    [n \in DOMAIN g \cup {name} |-> IF n = name THEN value ELSE g[n]]

\* print(*args)
PyPrint(out, args) == Append(out, args)

\* argv[1] when present, as a sequence of length at most one.
Arg1(a) == IF Len(a) >= 2 THEN <<a[2]>> ELSE <<>>

RunRecord ==
    [argv |-> argv, stdout |-> stdout, stderr |-> stderr,
     exitcode |-> exitcode, fs |-> fs]

Init ==
    /\ pc = "L4"
    /\ argv \in Argvs
    /\ globals = <<>>
    /\ stdout = <<>>
    /\ stderr = <<>>
    /\ exitcode = <<>>
    /\ fs = [p \in {"README.md"} |-> OtherFile]
    /\ runs = 1
    /\ prev = <<>>

\* A variant of the uncaught exception that exits with status 0.
UncaughtExitZero(e) ==
    /\ pc' = "exited"
    /\ stderr' = Append(stderr, e)
    /\ exitcode' = <<0>>

\* An exception nothing catches: the traceback goes to stderr, exit status 1.
Uncaught(e) ==
    /\ pc' = "exited"
    /\ stderr' = Append(stderr, e)
    /\ exitcode' = <<1>>

\* line 4: sys.argv, an expression statement
L4 ==
    /\ pc = "L4"
    /\ pc' = "L5"
    /\ UNCHANGED <<argv, globals, stdout, stderr, exitcode, fs, runs, prev>>

\* A variant of line 5 that prints nothing.
L5Silent ==
    /\ pc = "L5"
    /\ pc' = "L7"
    /\ UNCHANGED <<argv, globals, stdout, stderr, exitcode, fs, runs, prev>>

\* line 5: print('args', sys.argv)
L5 ==
    /\ pc = "L5"
    /\ stdout' = PyPrint(stdout, <<"args", argv>>)
    /\ pc' = "L7"
    /\ UNCHANGED <<argv, globals, stderr, exitcode, fs, runs, prev>>

\* A variant of line 7 that parses the last argument, sys.argv[-1].
L7LastArg ==
    /\ pc = "L7"
    /\ IF Len(argv) < 2
       THEN Uncaught("IndexError") /\ UNCHANGED globals
       ELSE IF ~PyInt(argv[Len(argv)]).ok
       THEN Uncaught("ValueError") /\ UNCHANGED globals
       ELSE /\ globals' = Bind(globals, "month", PyInt(argv[Len(argv)]).val)
            /\ pc' = "L9"
            /\ UNCHANGED <<stderr, exitcode>>
    /\ UNCHANGED <<argv, stdout, fs, runs, prev>>

\* line 7: month = int(sys.argv[1]).  IndexError when argv has no element 1,
\* ValueError when it is no integer literal.
L7 ==
    /\ pc = "L7"
    /\ IF Len(argv) < 2
       THEN Uncaught("IndexError") /\ UNCHANGED globals
       ELSE IF ~PyInt(argv[2]).ok
       THEN Uncaught("ValueError") /\ UNCHANGED globals
       ELSE /\ globals' = Bind(globals, "month", PyInt(argv[2]).val)
            /\ pc' = "L9"
            /\ UNCHANGED <<stderr, exitcode>>
    /\ UNCHANGED <<argv, stdout, fs, runs, prev>>

\* line 9: df = pd.DataFrame({"day": [1, 2], "num_passengers": [3, 4]})
L9 ==
    /\ pc = "L9"
    /\ globals' = Bind(globals, "df",
           DataFrame(<<[name |-> "day", values |-> <<1, 2>>],
                       [name |-> "num_passengers", values |-> <<3, 4>>]>>))
    /\ pc' = "L10"
    /\ UNCHANGED <<argv, stdout, stderr, exitcode, fs, runs, prev>>

\* line 10: df['month'] = month
L10 ==
    /\ pc = "L10"
    /\ globals' = Bind(globals, "df", SetItem(globals.df, "month", globals.month))
    /\ pc' = "L11"
    /\ UNCHANGED <<argv, stdout, stderr, exitcode, fs, runs, prev>>

\* line 11: print(df.head())
L11 ==
    /\ pc = "L11"
    /\ stdout' = PyPrint(stdout, <<DfHead(globals.df, HeadRows)>>)
    /\ pc' = "L13"
    /\ UNCHANGED <<argv, globals, stderr, exitcode, fs, runs, prev>>

\* A variant of line 13 that goes on to line 15 whether the write succeeded
\* or not.
L13Swallow ==
    /\ pc = "L13"
    /\ \/ fs' = ToParquet(fs, FileName(globals.month), globals.df)
       \/ UNCHANGED fs
       \/ fs' = WriteCut(fs, FileName(globals.month))
    /\ pc' = "L15"
    /\ UNCHANGED <<argv, globals, stdout, stderr, exitcode, runs, prev>>

\* line 13: df.to_parquet(f"output_{month}.parquet").  The write succeeds, or
\* raises OSError before the file is opened (directory not writable) or
\* after it was opened and cut (no space left).
L13 ==
    /\ pc = "L13"
    /\ \/ /\ fs' = ToParquet(fs, FileName(globals.month), globals.df)
          /\ pc' = "L15"
          /\ UNCHANGED <<stderr, exitcode>>
       \/ /\ Uncaught("OSError")
          /\ UNCHANGED fs
       \/ /\ Uncaught("OSError")
          /\ fs' = WriteCut(fs, FileName(globals.month))
    /\ UNCHANGED <<argv, globals, stdout, runs, prev>>

\* A variant of line 15 that prints the confirmation twice.
L15Twice ==
    /\ pc = "L15"
    /\ stdout' = PyPrint(PyPrint(stdout, <<HelloLine(globals.month)>>),
                         <<HelloLine(globals.month)>>)
    /\ pc' = "end"
    /\ UNCHANGED <<argv, globals, stderr, exitcode, fs, runs, prev>>

\* line 15: print(f"hello month={month}")
L15 ==
    /\ pc = "L15"
    /\ stdout' = PyPrint(stdout, <<HelloLine(globals.month)>>)
    /\ pc' = "end"
    /\ UNCHANGED <<argv, globals, stderr, exitcode, fs, runs, prev>>

\* The end of the script: the interpreter exits with status 0.
Finish ==
    /\ pc = "end"
    /\ pc' = "exited"
    /\ exitcode' = <<0>>
    /\ UNCHANGED <<argv, globals, stdout, stderr, fs, runs, prev>>

\* The next process starts in the same working directory, with a fresh
\* interpreter and its own standard streams.
StartRun ==
    /\ pc = "exited"
    /\ runs < MaxRuns
    /\ \E a \in Argvs :
          /\ argv' = a
          /\ prev' = IF Arg1(a) = Arg1(argv) THEN <<RunRecord>> ELSE <<>>
    /\ pc' = "L4"
    /\ globals' = <<>>
    /\ stdout' = <<>>
    /\ stderr' = <<>>
    /\ exitcode' = <<>>
    /\ runs' = runs + 1
    /\ UNCHANGED fs

\* One statement of the running process.
Step == L4 \/ L5 \/ L7 \/ L9 \/ L10 \/ L11 \/ L13 \/ L15 \/ Finish

Next == Step \/ StartRun

Spec == Init /\ [][Next]_vars

\* One process on its own: the interpreter keeps executing statements until
\* the process has exited.
RunSpec == Init /\ [][Step]_vars /\ WF_vars(Step)

----------------------------------------------------------------------------
(* What the properties are stated with *)

RECURSIVE Pow10(_)
Pow10(n) == IF n = 0 THEN 1 ELSE 10 * Pow10(n - 1)

\* Every integer whose decimal text fits in an argument.
MonthRange == (1 - Pow10(MaxArgLen - 1))..(Pow10(MaxArgLen) - 1)

DecimalDigits == <<"0", "1", "2", "3", "4", "5", "6", "7", "8", "9">>

RECURSIVE NatText(_)
NatText(n) ==
    IF n < 10 THEN <<DecimalDigits[n + 1]>>
    ELSE Append(NatText(n \div 10), DecimalDigits[(n % 10) + 1])

\* The decimal text of m as typed on the command line.
Decimal(m) == IF m < 0 THEN <<"-">> \o NatText(0 - m) ELSE NatText(m)

\* The integer a decimal text stands for.
DecimalValue ==
    [t \in {Decimal(m) : m \in MonthRange} |->
        CHOOSE m \in MonthRange : Decimal(m) = t]

ExpectedTable(m) ==
    [nrows |-> 2,
     columns |-> <<[name |-> "day", values |-> <<1, 2>>],
                   [name |-> "num_passengers", values |-> <<3, 4>>],
                   [name |-> "month", values |-> <<m, m>>]>>]

ExpectedFile(m) == [format |-> "parquet", table |-> ExpectedTable(m)]

ExpectedName(m) == "output_" \o ToString(m) \o ".parquet"

ExpectedStdout(m) ==
    << <<"args", argv>>, <<ExpectedTable(m)>>, <<"hello month=" \o ToString(m)>> >>

IsPrefix(s, t) == Len(s) <= Len(t) /\ \A i \in 1..Len(s) : s[i] = t[i]

Exited == pc = "exited"
Succeeded == pc = "exited" /\ exitcode = <<0>>
Failed == pc = "exited" /\ exitcode # <<0>> /\ exitcode # <<>>
HasMonth == "month" \in DOMAIN globals
HasDf == "df" \in DOMAIN globals

\* Argument 1 is absent or is no integer literal.
BadArg == Len(argv) < 2 \/ ~IsIntLiteral(argv[2])

IOFailed(err) == err = <<"OSError">>

----------------------------------------------------------------------------
(* C1: a run that completes with the integer m as argument 1 (negative     *)
(* values included) leaves output_<m>.parquet holding exactly the columns  *)
(* day=[1,2], num_passengers=[3,4], month=[m,m], in that order, 2 rows.    *)
C1_OutputFile ==
    /\ (Succeeded /\ Len(argv) >= 2 /\ argv[2] \in DOMAIN DecimalValue) =>
          /\ ExpectedName(DecimalValue[argv[2]]) \in DOMAIN fs
          /\ fs[ExpectedName(DecimalValue[argv[2]])] =
                 ExpectedFile(DecimalValue[argv[2]])
    /\ Succeeded =>
          /\ HasMonth
          /\ ExpectedName(globals.month) \in DOMAIN fs
          /\ fs[ExpectedName(globals.month)] = ExpectedFile(globals.month)

C1_Witness == Succeeded /\ Len(argv) >= 2 /\ argv[2] = <<"-", "1">>

\* A run with a bad argument 1 is at or before line 7, or has failed.
C2_BadArgState ==
    BadArg =>
        /\ pc \in {"L4", "L5", "L7", "exited"}
        /\ ~HasDf
        /\ Exited => Failed

(* C2: with argument 1 absent or not an integer the run ends with a        *)
(* non-zero exit code, never gets past the parse at line 7, and no step of *)
(* it creates or overwrites a file.                                        *)
C2_NoOutputOnBadArg ==
    /\ []C2_BadArgState
    /\ [][BadArg => fs' = fs]_vars

C2_Witness ==
    /\ Exited /\ Len(argv) >= 2 /\ argv[2] = <<"a">>
    /\ DOMAIN fs # {"README.md"}

(* C3: what was written to standard output is always a prefix of: the      *)
(* argument echo, the table preview, 'hello month=<m>'; a successful run   *)
(* has written exactly these three, each once.                             *)
C3_StdoutOrder ==
    /\ Len(stdout) <= 1 => IsPrefix(stdout, << <<"args", argv>> >>)
    /\ Len(stdout) >= 2 =>
          HasMonth /\ IsPrefix(stdout, ExpectedStdout(globals.month))
    /\ Succeeded => HasMonth /\ stdout = ExpectedStdout(globals.month)
    /\ (Succeeded /\ Len(argv) >= 2 /\ argv[2] \in DOMAIN DecimalValue) =>
          stdout = ExpectedStdout(DecimalValue[argv[2]])

C3_Witness == Succeeded /\ Len(stdout) = 3 /\ argv[2] = <<"1", "1">>

\* After a completed re-run the directory is as the completed run before left it.
C4_RerunState ==
    (Succeeded /\ prev # <<>> /\ prev[1].exitcode = <<0>>) => fs = prev[1].fs

(* C4: a completed write to an output_<m>.parquet that an earlier          *)
(* completed run left leaves the file as it was (it is replaced by the     *)
(* same table, not appended to), and after a completed re-run with the     *)
(* same argument the directory is as the completed first run left it.      *)
C4_RerunIdempotent ==
    /\ []C4_RerunState
    /\ [][(/\ pc = "L13" /\ pc' = "L15"
           /\ ExpectedName(globals.month) \in DOMAIN fs
           /\ fs[ExpectedName(globals.month)].format = "parquet")
          => fs'[ExpectedName(globals.month)] = fs[ExpectedName(globals.month)]]_vars

C4_Witness == Succeeded /\ prev # <<>> /\ prev[1].exitcode = <<0>>

(* C5: the confirmation is printed only after the file was written; a run  *)
(* whose write raises the I/O error has exited with a non-zero code with   *)
(* the echo and the preview as its only output.                            *)
C5_HelloAfterWrite ==
    /\ Len(stdout) >= 3 =>
          /\ stderr = <<>>
          /\ ExpectedName(globals.month) \in DOMAIN fs
          /\ fs[ExpectedName(globals.month)] = [format |-> "parquet", table |-> globals.df]
    /\ stderr # <<>> => Failed
    /\ IOFailed(stderr) => Failed /\ Len(stdout) = 2

C5_Witness == Failed /\ IOFailed(stderr) /\ runs = 1

\* The order of the program counter's values.
LineRank(l) ==
    CASE l = "L4" -> 4 [] l = "L5" -> 5 [] l = "L7" -> 7 [] l = "L9" -> 9
      [] l = "L10" -> 10 [] l = "L11" -> 11 [] l = "L13" -> 13
      [] l = "L15" -> 15 [] l = "end" -> 16 [] l = "exited" -> 17

\* The exit code of a process that has exited.
C6_ExitCode ==
    Exited =>
        /\ exitcode \in {<<0>>, <<1>>}
        /\ exitcode = <<0>> <=> (~BadArg /\ ~IOFailed(stderr))
        /\ BadArg => stderr \in {<<"IndexError">>, <<"ValueError">>}

(* C6: every run terminates; the exit code is 0 exactly when neither the   *)
(* parse nor the write failed; the program counter only moves forward.     *)
C6_Terminates ==
    /\ (pc # "exited") ~> (pc = "exited")
    /\ []C6_ExitCode
    /\ [][pc' # pc =>
            \/ LineRank(pc) < LineRank(pc')
            \/ pc = "exited" /\ pc' = "L4" /\ runs' = runs + 1]_vars

C6_Witness == Succeeded /\ Len(argv) = 3 /\ argv[2] = <<" ", "1">>

\* The table in every state that has one.
C7_TableState ==
    HasDf =>
        /\ globals.df.nrows = 2
        /\ \A i \in 1..Len(globals.df.columns) :
              Len(globals.df.columns[i].values) = 2
        /\ globals.df.columns[1] = [name |-> "day", values |-> <<1, 2>>]
        /\ globals.df.columns[2] = [name |-> "num_passengers", values |-> <<3, 4>>]
        /\ Len(globals.df.columns) = IF pc = "L10" THEN 2 ELSE 3
        /\ pc # "L10" =>
              globals.df.columns[3] =
                  [name |-> "month", values |-> <<globals.month, globals.month>>]

(* C7: from its construction on the table has 2 rows and columns of equal  *)
(* length, day and num_passengers keep their values, and the table changes *)
(* exactly once, by the assignment of the month column at line 10.         *)
C7_TableShape ==
    /\ []C7_TableState
    /\ [][(HasDf /\ "df" \in DOMAIN globals' /\ globals'.df # globals.df)
              => pc = "L10" /\ pc' = "L11"]_vars

C7_Witness == pc = "L13" /\ Len(globals.df.columns) = 3 /\ globals.month < 0

(* C8: two runs given the same argument 1 (or none either) and meeting the *)
(* same I/O conditions agree on the exit code, the traceback, everything   *)
(* printed after the echo and the files left; each echoes its own argv.    *)
C8_OnlyArg1Matters ==
    (Exited /\ prev # <<>>) =>
        /\ stdout[1] = <<"args", argv>>
        /\ prev[1].stdout[1] = <<"args", prev[1].argv>>
        /\ (IOFailed(stderr) <=> IOFailed(prev[1].stderr)) =>
              /\ exitcode = prev[1].exitcode
              /\ stderr = prev[1].stderr
              /\ Tail(stdout) = Tail(prev[1].stdout)
              /\ exitcode = <<0>> => fs = prev[1].fs

C8_Witness ==
    /\ Succeeded /\ prev # <<>> /\ prev[1].exitcode = <<0>>
    /\ prev[1].argv[1] # argv[1]
    /\ Len(prev[1].argv) # Len(argv)

(* C9: a step of a run changes no file other than output_<m>.parquet for   *)
(* the month m it parsed: every other file, the output of an earlier run   *)
(* with another month included, stays as it is, and no other file appears. *)
C9_Frame ==
    [][/\ \A p \in DOMAIN fs :
             /\ p \in DOMAIN fs'
             /\ fs'[p] # fs[p] => HasMonth /\ p = ExpectedName(globals.month)
       /\ \A p \in DOMAIN fs' \ DOMAIN fs :
             HasMonth /\ p = ExpectedName(globals.month)]_vars

C9_Witness ==
    /\ Exited /\ HasMonth
    /\ \E k \in MonthRange :
          /\ k # globals.month
          /\ ExpectedName(k) \in DOMAIN fs
          /\ fs[ExpectedName(k)] = ExpectedFile(k)
          /\ ExpectedName(globals.month) \in DOMAIN fs

(* C10: the echo is printed before argument 1 is parsed: it is the first   *)
(* output of every run that got past line 5, the only output of a run that *)
(* failed on its argument, and a run that failed on the write has printed  *)
(* the echo and the preview.                                               *)
C10_EchoFirst ==
    /\ pc \notin {"L4", "L5"} => Len(stdout) >= 1 /\ stdout[1] = <<"args", argv>>
    /\ pc = "L7" => stdout = << <<"args", argv>> >> /\ ~HasMonth
    /\ (Exited /\ stderr \in {<<"IndexError">>, <<"ValueError">>}) =>
          stdout = << <<"args", argv>> >>
    /\ (Exited /\ IOFailed(stderr)) =>
          stdout = << <<"args", argv>>, <<ExpectedTable(globals.month)>> >>

C10_Witness == Exited /\ stderr = <<"IndexError">> /\ stdout # <<>>

====
